---- MODULE Spec2Model ----
(***************************************************************************)
(* Model of src/main.py: the PDF -> Markdown -> LaTeX batch pipeline.      *)
(* Text (file names, image ids, markup) is a sequence of one-character     *)
(* strings, so that str.replace, str.join, Path.stem/suffix and the        *)
(* f-string that names an image are computed the way the code computes     *)
(* them.  The disk is four directories; the process is main() with the     *)
(* bodies of process_pdf and convert_md_to_latex unfolded into steps.      *)
(***************************************************************************)
EXTENDS Integers, Sequences, FiniteSets, TLC

(* ------------------------------ bounds --------------------------------- *)
\* number of PDF files the user may have dropped into the input directory
NumDocs == 2
\* number of times the script is started on the same disk
MaxRuns == 2
\* number of I/O or service errors the environment raises over all runs
MaxFaults == 1
\* recognition results of the assembly specifications: pages per document,
\* images per page, markup segments per page
MaxPages == 3
MaxImgs == 3
MaxSegs == 2

(* ------------------------------- text ---------------------------------- *)
DigitChars == <<"0", "1", "2", "3", "4", "5", "6", "7", "8", "9">>

\* str(n) for n >= 0, as in the f-string of line 125
RECURSIVE Str(_)
Str(n) ==
  IF n < 10 THEN <<DigitChars[n + 1]>>
  ELSE Str(n \div 10) \o <<DigitChars[(n % 10) + 1]>>

\* largest index of character c in s, 0 when absent (str.rfind, 1-based)
RECURSIVE RFind(_, _)
RFind(s, c) ==
  IF s = <<>> THEN 0
  ELSE IF s[Len(s)] = c THEN Len(s)
  ELSE RFind(SubSeq(s, 1, Len(s) - 1), c)

\* pathlib.PurePath.suffix of a one-component name: the last dot and what
\* follows it, unless that dot is the first or the last character
Suffix(name) ==
  LET i == RFind(name, ".")
  IN IF 1 < i /\ i < Len(name) THEN SubSeq(name, i, Len(name)) ELSE <<>>

\* pathlib.PurePath.stem: the name without its suffix
Stem(name) == SubSeq(name, 1, Len(name) - Len(Suffix(name)))

\* str.replace(old, new) for a non-empty old: leftmost occurrences, left to
\* right, not overlapping, the replacement text is not searched again
RECURSIVE Replace(_, _, _)
Replace(s, old, new) ==
  IF Len(s) < Len(old) THEN s
  ELSE IF SubSeq(s, 1, Len(old)) = old
       THEN new \o Replace(SubSeq(s, Len(old) + 1, Len(s)), old, new)
       ELSE <<Head(s)>> \o Replace(Tail(s), old, new)

\* empty parts are left out of the join
RECURSIVE JoinNonEmpty(_)
JoinNonEmpty(parts) ==
  IF parts = <<>> THEN <<>>
  ELSE IF Head(parts) = <<>> THEN JoinNonEmpty(Tail(parts))
  ELSE IF Len(parts) = 1 THEN parts[1]
  ELSE parts[1] \o <<"\n", "\n">> \o JoinNonEmpty(Tail(parts))

\* "\n\n".join(parts)
RECURSIVE Join(_)
Join(parts) ==
  IF parts = <<>> THEN <<>>
  ELSE IF Len(parts) = 1 THEN parts[1]
  ELSE parts[1] \o <<"\n", "\n">> \o Join(Tail(parts))

\* the self-referential reference ![x](y) as text
Ref(x, y) == <<"!", "[">> \o x \o <<"]", "(">> \o y \o <<")">>

ImagesSlash == <<"i", "m", "a", "g", "e", "s", "/">>
ImgInfix == <<"_", "i", "m", "g", "_">>
DotPng == <<".", "p", "n", "g">>
DotPdf == <<".", "p", "d", "f">>

(* --------------------------- image payloads ---------------------------- *)
\* A payload (image_base64) is a sequence of tokens: an optional "data:"
\* scheme, a media type, a "," and base64 quanta.  B64Table is the part of
\* the base64 code the model uses; any other token does not decode.
B64Table == [QUJD |-> "ABC", REVG |-> "DEF"]
B64Tokens == {"QUJD", "REVG"}

\* index of the first "," of a payload, 0 when there is none
RECURSIVE FindComma(_, _)
FindComma(p, i) ==
  IF i > Len(p) THEN 0 ELSE IF p[i] = "," THEN i ELSE FindComma(p, i + 1)

\* lines 118-121: strip a data: prefix, then base64.b64decode.  DecodeError
\* is the exception either line raises ("none" when they return): IndexError
\* when the prefix has no comma, binascii.Error when a quantum is broken.
StartsWithData(p) == Len(p) > 0 /\ p[1] = "data:"
StripPrefix(p) ==
  IF StartsWithData(p) THEN SubSeq(p, FindComma(p, 1) + 1, Len(p)) ELSE p
DecodeError(p) ==
  IF StartsWithData(p) /\ FindComma(p, 1) = 0 THEN "IndexError"
  ELSE IF \E i \in 1..Len(StripPrefix(p)) : StripPrefix(p)[i] \notin B64Tokens
       THEN "binascii.Error"
       ELSE "none"
B64Decode(p) ==
  [i \in 1..Len(StripPrefix(p)) |-> B64Table[StripPrefix(p)[i]]]

PlainPayload == <<"QUJD">>
DataPayload == <<"data:", "image/jpeg;base64", ",", "REVG">>
BadPayload == <<"QUJ">>

(* ------------------------- recognition results ------------------------- *)
\* An OCRResponse is a sequence of pages [markdown, images]; an image is
\* [id, image_base64].
\* three ids: with an extension, without one (and a prefix of the first),
\* and with a leading dot, which pathlib does not take for an extension
IdA == <<"a", ".", "j">>
IdB == <<"a">>
IdC == <<".", "j">>
Ids == {IdA, IdB, IdC}
Img(id, payload) == [id |-> id, image_base64 |-> payload]
Page(markdown, images) == [markdown |-> markdown, images |-> images]

\* the results the service returns in the batch specification: an image, an
\* empty page, an image; and an image followed by one whose payload does
\* not decode
RespTwo ==
  << Page(Ref(IdB, IdB), <<Img(IdB, PlainPayload)>>),
     Page(<<>>, <<>>),
     Page(<<"t">> \o Ref(IdA, IdA), <<Img(IdA, PlainPayload)>>) >>
RespBad ==
  << Page(Ref(IdA, IdA), <<Img(IdA, DataPayload), Img(IdB, BadPayload)>>) >>
SampleResponses == {RespTwo, RespBad}

\* the text of a sequence of texts, one after the other
RECURSIVE Concat(_)
Concat(ss) == IF ss = <<>> THEN <<>> ELSE Head(ss) \o Concat(Tail(ss))

\* the image lists of a page: at most MaxImgs images, their ids distinct (an
\* id is unique within its page, not across pages)
IdSeqs ==
  {s \in UNION {[1..k -> Ids] : k \in 0..MaxImgs} :
     \A i, j \in DOMAIN s : i # j => s[i] # s[j]}
PayloadOf(id) == IF id = IdA THEN DataPayload ELSE PlainPayload
Images(s) == [i \in DOMAIN s |-> Img(s[i], PayloadOf(s[i]))]

\* results with up to MaxPages pages of 0 to MaxImgs images: the images of
\* a page are the first ones of CountIds, in this order or the opposite one,
\* so that ids repeat across pages; the markup of a page refers once to
\* every image of the page, a page without images is empty
IdD == <<"b", ".", "p">>
CountIds == <<IdA, IdB, IdC, IdD>>
Reverse(s) == [i \in DOMAIN s |-> s[Len(s) + 1 - i]]
CountIdSeqs ==
  UNION {{SubSeq(CountIds, 1, k), Reverse(SubSeq(CountIds, 1, k))} :
           k \in 0..(IF MaxImgs < Len(CountIds) THEN MaxImgs ELSE Len(CountIds))}
RefPage(s) == Page(Concat([i \in DOMAIN s |-> Ref(s[i], s[i])]), Images(s))
CountResponses ==
  UNION {[1..n -> {RefPage(s) : s \in CountIdSeqs}] : n \in 1..MaxPages}

\* results of two pages, the second with any markup of up to MaxSegs
\* segments (a reference with any alt text and target, a bare id, other
\* text) and any images
Segments ==
  {Ref(x, y) : x, y \in Ids} \cup Ids \cup {<<"t">>, <<"\n">>}
Markups ==
  {Concat(ss) : ss \in UNION {[1..k -> Segments] : k \in 0..MaxSegs}}
MarkupPages == {Page(m, Images(s)) : m \in Markups, s \in IdSeqs}
MarkupResponses == {<<RefPage(<<IdA>>), p>> : p \in MarkupPages}

AssemblyResponses == CountResponses \cup MarkupResponses

(* ------------------------------- files --------------------------------- *)
PdfName(d) == <<"d">> \o Str(d) \o DotPdf
PdfNames == {PdfName(d) : d \in 1..NumDocs}
Bases == {Stem(f) : f \in PdfNames}

\* a directory of regular files is a set of [name, data] with one entry per
\* name; open(path, "w") + write replaces the entry of that name
File(name, data) == [name |-> name, data |-> data]
WriteFile(dir, name, data) ==
  {f \in dir : f.name # name} \cup {File(name, data)}
Names(dir) == {f.name : f \in dir}

\* ocr_output/<base>: exists, ocr_response.json (a sequence of at most one
\* content), images/ and output.md (likewise)
NoOutputDir == [exists |-> FALSE, json |-> <<>>, images |-> {}, md |-> <<>>]
\* latex_output/<base>: exists, images/ when has_images, <base>.tex
NoLatexDir ==
  [exists |-> FALSE, has_images |-> FALSE, images |-> {}, tex |-> <<>>]

VARIABLES
  input_dir,     \* names of the files of pdfs_to_process
  done_dir,      \* names of the files of pdfs-done
  ocr_output,    \* base name -> the directory ocr_output/<base>
  latex_output,  \* base name -> the directory latex_output/<base>
  api_key,       \* whether MISTRAL_API_KEY is set for this process
  pandoc_available,
  pdf_files,     \* the list main iterates
  idx,           \* position of pdf_file in pdf_files
  pc,            \* position of the process in its code
  log,           \* what the process has printed, as events
  run,           \* how many times the script has been started
  faults,        \* how many errors the environment has raised
  ocr_response,
  pg,            \* position of page in ocr_response.pages
  im,            \* position of image_obj in page.images
  global_counter,
  updated_markdown,
  updated_markdown_pages,
  extracted      \* history: the images process_pdf has written for pdf_file

vars ==
  << input_dir, done_dir, ocr_output, latex_output, api_key,
     pandoc_available, pdf_files, idx, pc, log, run, faults, ocr_response,
     pg, im, global_counter, updated_markdown, updated_markdown_pages,
     extracted >>

disk == << input_dir, done_dir, ocr_output, latex_output >>
locals ==
  << ocr_response, pg, im, global_counter, updated_markdown,
     updated_markdown_pages, extracted >>


(* ------------------------------ helpers -------------------------------- *)
RECURSIVE Listing(_, _)
\* list(INPUT_DIR.glob("*.pdf")): every file of the directory, once.  The
\* order of glob is unspecified; the files of the model differ by their
\* names only, so one order (ascending) stands for all of them.
Listing(S, d) ==
  IF d > NumDocs THEN <<>>
  ELSE (IF PdfName(d) \in S THEN <<PdfName(d)>> ELSE <<>>) \o Listing(S, d + 1)

pdf_file == pdf_files[idx]
\* every file of the batch uses the base name of the first one
pdf_base_of_first == Stem(pdf_files[1])
pdf_base == Stem(pdf_file)
output_dir == ocr_output[pdf_base]
latex_output_path == latex_output[pdf_base]
pages == ocr_response
page == ocr_response[pg]
image_obj == page.images[im]

Event(ev, doc, detail, about) ==
  [ev |-> ev, doc |-> doc, detail |-> detail, about |-> about]
Emit(ev) == log' = Append(log, Event(ev, pdf_file, "", <<>>))

\* the content of a file whose write was interrupted, and of a complete one
Truncated == [complete |-> FALSE, value |-> <<>>]
Complete(v) == [complete |-> TRUE, value |-> v]

ResetLocals ==
  /\ ocr_response' = <<>>
  /\ pg' = 0
  /\ im' = 0
  /\ global_counter' = 0
  /\ updated_markdown' = <<>>
  /\ updated_markdown_pages' = <<>>

\* the handler goes to the next file without a message
ExceptSilent(detail, about) ==
  /\ log' = log
  /\ idx' = idx + 1
  /\ pc' = "loop"
  /\ ResetLocals
  /\ UNCHANGED << api_key, pandoc_available, pdf_files, run, extracted >>

\* the handler does not leave the file: the loop takes it again
ExceptRetries(detail, about) ==
  /\ log' = Append(log, Event("error", pdf_file, detail, about))
  /\ idx' = idx
  /\ pc' = "loop"
  /\ ResetLocals
  /\ UNCHANGED << api_key, pandoc_available, pdf_files, run, extracted >>

\* the exception is not caught: it leaves main and the process ends
ExceptEscapes(detail, about) ==
  /\ log' = Append(log, Event("error", pdf_file, detail, about))
  /\ idx' = idx
  /\ pc' = "done"
  /\ ResetLocals
  /\ UNCHANGED << api_key, pandoc_available, pdf_files, run, extracted >>

\* lines 242-243: the exception leaves the body of the loop, the handler
\* prints the file name and the message, the loop goes to the next file
Except(detail, about) ==
  /\ log' = Append(log, Event("error", pdf_file, detail, about))
  /\ idx' = idx + 1
  /\ pc' = "loop"
  /\ ResetLocals
  /\ UNCHANGED << api_key, pandoc_available, pdf_files, run, extracted >>

\* the environment raises one more error
Fault ==
  /\ faults < MaxFaults
  /\ faults' = faults + 1

(* ------------------------------- Init ---------------------------------- *)
\* A fresh disk with any number of PDFs in the input directory (the files
\* differ by their names only: the first n names stand for any n files),
\* and the script about to be started.
Init ==
  /\ \E n \in 0..NumDocs : input_dir = {PdfName(d) : d \in 1..n}
  /\ done_dir = {}
  /\ ocr_output = [b \in Bases |-> NoOutputDir]
  /\ latex_output = [b \in Bases |-> NoLatexDir]
  /\ api_key \in BOOLEAN
  /\ pandoc_available = FALSE
  /\ pdf_files = <<>>
  /\ idx = 0
  /\ pc = "boot"
  /\ log = <<>>
  /\ run = 1
  /\ faults = 0
  /\ ocr_response = <<>>
  /\ pg = 0
  /\ im = 0
  /\ global_counter = 0
  /\ updated_markdown = <<>>
  /\ updated_markdown_pages = <<>>
  /\ extracted = <<>>

(* ------------------------------ main ----------------------------------- *)
\* the check of lines 32-35 is left out: main starts without the key
BootIgnoresKey ==
  /\ pc = "boot"
  /\ pc' = "probe"
  /\ UNCHANGED << disk, api_key, pandoc_available, pdf_files, idx, log, run,
                  faults, locals >>

\* lines 26-37: the four directories exist from here on; without the key
\* the module raises ValueError and the process ends
Boot ==
  /\ pc = "boot"
  /\ pc' = IF api_key THEN "probe" ELSE "aborted"
  /\ UNCHANGED << disk, api_key, pandoc_available, pdf_files, idx, log, run,
                  faults, locals >>

\* lines 210-219
CheckPandoc ==
  /\ pc = "probe"
  /\ \E found \in BOOLEAN : pandoc_available' = found
  /\ pc' = "glob"
  /\ UNCHANGED << disk, api_key, pdf_files, idx, log, run, faults, locals >>

\* lines 221-224
Glob ==
  /\ pc = "glob"
  /\ pdf_files' = Listing(input_dir, 1)
  /\ idx' = 1
  /\ pc' = IF input_dir = {} THEN "done" ELSE "loop"
  /\ UNCHANGED << disk, api_key, pandoc_available, log, run, faults, locals >>

\* line 226, the loop is exhausted
ForEnd ==
  /\ pc = "loop"
  /\ idx > Len(pdf_files)
  /\ pc' = "done"
  /\ UNCHANGED << disk, api_key, pandoc_available, pdf_files, idx, log, run,
                  faults, locals >>

\* lines 226-229 and 70-71: the next file enters process_pdf
ForNext ==
  /\ pc = "loop"
  /\ idx <= Len(pdf_files)
  /\ Emit("processing")
  /\ extracted' = <<>>
  /\ pc' = "mkdirs"
  /\ UNCHANGED << disk, api_key, pandoc_available, pdf_files, idx, run,
                  faults, ocr_response, pg, im, global_counter,
                  updated_markdown, updated_markdown_pages >>

(* ---------------------------- process_pdf ------------------------------ *)
\* lines 74-77: mkdir(exist_ok=True) keeps what the directories hold
MakeOutputDirs ==
  /\ pc = "mkdirs"
  /\ \/ /\ ocr_output' = [ocr_output EXCEPT ![pdf_base].exists = TRUE]
        /\ pc' = "ocr"
        /\ UNCHANGED << input_dir, done_dir, latex_output, api_key,
                        pandoc_available, pdf_files, idx, log, run, faults,
                        locals >>
     \/ /\ Fault
        /\ Except("OSError", pdf_base)
        /\ UNCHANGED disk

\* lines 80-97: read the file, upload it, get the URL, run the recognition
Recognize ==
  /\ pc = "ocr"
  /\ \/ /\ \E r \in SampleResponses : ocr_response' = r
        /\ pc' = "save_json"
        /\ UNCHANGED << disk, api_key, pandoc_available, pdf_files, idx, log,
                        run, faults, pg, im, global_counter,
                        updated_markdown, updated_markdown_pages, extracted >>
     \/ /\ Fault
        /\ Except("SDKError", <<>>)
        /\ UNCHANGED disk

\* lines 101-104 are left out: no snapshot is written
SaveSnapshotNoWrite ==
  /\ pc = "save_json"
  /\ Emit("ocr_saved")
  /\ global_counter' = 1
  /\ updated_markdown_pages' = <<>>
  /\ pg' = 1
  /\ pc' = "page"
  /\ UNCHANGED << disk, api_key, pandoc_available, pdf_files, idx, run,
                  faults, ocr_response, im, updated_markdown, extracted >>

\* the counter starts after the files the images directory already holds
SaveSnapshotCountsFiles ==
  /\ pc = "save_json"
  /\ \/ /\ ocr_output' =
             [ocr_output EXCEPT ![pdf_base].json = <<Complete(ocr_response)>>]
        /\ Emit("ocr_saved")
        /\ global_counter' = 1 + Cardinality(output_dir.images)
        /\ updated_markdown_pages' = <<>>
        /\ pg' = 1
        /\ pc' = "page"
        /\ UNCHANGED << input_dir, done_dir, latex_output, api_key,
                        pandoc_available, pdf_files, idx, run, faults,
                        ocr_response, im, updated_markdown, extracted >>
     \/ /\ Fault
        /\ Except("OSError", <<"j", "s", "o", "n">>)
        /\ \/ UNCHANGED ocr_output
           \/ ocr_output' = [ocr_output EXCEPT ![pdf_base].json = <<Truncated>>]
        /\ UNCHANGED << input_dir, done_dir, latex_output >>

\* lines 101-110: the snapshot, then the counter and the list of pages
SaveSnapshot ==
  /\ pc = "save_json"
  /\ \/ /\ ocr_output' =
             [ocr_output EXCEPT ![pdf_base].json = <<Complete(ocr_response)>>]
        /\ Emit("ocr_saved")
        /\ global_counter' = 1
        /\ updated_markdown_pages' = <<>>
        /\ pg' = 1
        /\ pc' = "page"
        /\ UNCHANGED << input_dir, done_dir, latex_output, api_key,
                        pandoc_available, pdf_files, idx, run, faults,
                        ocr_response, im, updated_markdown, extracted >>
     \/ /\ Fault
        /\ Except("OSError", <<"j", "s", "o", "n">>)
        /\ \/ UNCHANGED ocr_output
           \/ ocr_output' = [ocr_output EXCEPT ![pdf_base].json = <<Truncated>>]
        /\ UNCHANGED << input_dir, done_dir, latex_output >>

\* the counter starts again at a page without images
PageStartResets ==
  /\ pc = "page"
  /\ pg <= Len(pages)
  /\ updated_markdown' = page.markdown
  /\ im' = 1
  /\ global_counter' = IF page.images = <<>> THEN 1 ELSE global_counter
  /\ pc' = "image"
  /\ UNCHANGED << disk, api_key, pandoc_available, pdf_files, idx, log, run,
                  faults, ocr_response, pg, updated_markdown_pages,
                  extracted >>

\* lines 113-114
PageStart ==
  /\ pc = "page"
  /\ pg <= Len(pages)
  /\ updated_markdown' = page.markdown
  /\ im' = 1
  /\ pc' = "image"
  /\ UNCHANGED << disk, api_key, pandoc_available, pdf_files, idx, log, run,
                  faults, ocr_response, pg, global_counter,
                  updated_markdown_pages, extracted >>

\* line 124
Ext(id) == IF Suffix(id) # <<>> THEN Suffix(id) ELSE DotPng
\* the file is named after the id of the image
NewImageNameById(base, counter, id) ==
  base \o ImgInfix \o Stem(id) \o Ext(id)
\* line 125
NewImageName(base, counter, id) ==
  base \o ImgInfix \o Str(counter) \o Ext(id)
\* the counter leaves a gap
NextCounterSkips(counter) == counter + 2
\* the counter is never incremented
NextCounterStuck(counter) == counter
\* line 126
NextCounter(counter) == counter + 1
\* the target is replaced wherever it stands in parentheses
RewriteAnyAlt(markdown, id, name) ==
  Replace(markdown, <<"(">> \o id \o <<")">>,
          <<"(">> \o ImagesSlash \o name \o <<")">>)
\* the inserted target leaves out the extension of the file
RewriteToStem(markdown, id, name) ==
  Replace(markdown, Ref(id, id), Ref(id, ImagesSlash \o Stem(name)))
\* lines 135-138
Rewrite(markdown, id, name) ==
  Replace(markdown, Ref(id, id), Ref(id, ImagesSlash \o name))

\* lines 115-138, one iteration of the inner loop
ExtractImage ==
  /\ pc = "image"
  /\ im <= Len(page.images)
  /\ LET payload == image_obj.image_base64
         new_image_name == NewImageName(pdf_base, global_counter, image_obj.id)
     IN \/ /\ DecodeError(payload) # "none"
           /\ Except(DecodeError(payload), <<>>)
           /\ UNCHANGED << disk, faults >>
        \/ /\ DecodeError(payload) = "none"
           /\ ocr_output' =
                [ocr_output EXCEPT ![pdf_base].images =
                   WriteFile(@, new_image_name, Complete(B64Decode(payload)))]
           /\ extracted' =
                Append(extracted,
                       [name |-> new_image_name, id |-> image_obj.id,
                        page |-> pg, pos |-> im, counter |-> global_counter,
                        data |-> B64Decode(payload)])
           /\ global_counter' = NextCounter(global_counter)
           /\ updated_markdown' =
                Rewrite(updated_markdown, image_obj.id, new_image_name)
           /\ im' = im + 1
           /\ UNCHANGED << input_dir, done_dir, latex_output, api_key,
                           pandoc_available, pdf_files, idx, pc, log, run,
                           faults, ocr_response, pg, updated_markdown_pages >>
        \/ /\ DecodeError(payload) = "none"
           /\ Fault
           /\ Except("OSError", new_image_name)
           /\ \/ UNCHANGED ocr_output
              \/ ocr_output' =
                   [ocr_output EXCEPT ![pdf_base].images =
                      WriteFile(@, new_image_name, Truncated)]
           /\ UNCHANGED << input_dir, done_dir, latex_output >>

\* line 139
PageEnd ==
  /\ pc = "image"
  /\ im > Len(page.images)
  /\ updated_markdown_pages' = Append(updated_markdown_pages, updated_markdown)
  /\ pg' = pg + 1
  /\ pc' = "page"
  /\ UNCHANGED << disk, api_key, pandoc_available, pdf_files, idx, log, run,
                  faults, ocr_response, im, global_counter, updated_markdown,
                  extracted >>

\* lines 141-147: output.md, then process_pdf returns to line 229
WriteMarkdown ==
  /\ pc = "page"
  /\ pg > Len(pages)
  /\ LET final_markdown == Join(updated_markdown_pages)
     IN \/ /\ ocr_output' =
                [ocr_output EXCEPT ![pdf_base].md = <<Complete(final_markdown)>>]
           /\ Emit("md_generated")
           /\ pc' = "persisted"
           /\ UNCHANGED << input_dir, done_dir, latex_output, api_key,
                           pandoc_available, pdf_files, idx, run, faults,
                           locals >>
        \/ /\ Fault
           /\ Except("OSError", <<"m", "d">>)
           /\ \/ UNCHANGED ocr_output
              \/ ocr_output' = [ocr_output EXCEPT ![pdf_base].md = <<Truncated>>]
           /\ UNCHANGED << input_dir, done_dir, latex_output >>


(* ------------------------ convert_md_to_latex -------------------------- *)
\* the conversion stage is entered whatever the check of line 211 found
StartConvertAlways ==
  /\ pc = "persisted"
  /\ Emit("converting")
  /\ pc' = "latex_mkdir"
  /\ UNCHANGED << disk, api_key, pandoc_available, pdf_files, idx, run,
                  faults, locals >>

\* lines 232-233 and 154: main calls the conversion stage
StartConvert ==
  /\ pc = "persisted"
  /\ pandoc_available
  /\ Emit("converting")
  /\ pc' = "latex_mkdir"
  /\ UNCHANGED << disk, api_key, pandoc_available, pdf_files, idx, run,
                  faults, locals >>

\* line 232, pandoc_available is false
SkipConvert ==
  /\ pc = "persisted"
  /\ ~pandoc_available
  /\ pc' = "move"
  /\ UNCHANGED << disk, api_key, pandoc_available, pdf_files, idx, log, run,
                  faults, locals >>

\* lines 157-159, outside the try of line 183
MakeLatexDir ==
  /\ pc = "latex_mkdir"
  /\ \/ /\ latex_output' = [latex_output EXCEPT ![pdf_base].exists = TRUE]
        /\ pc' = "copytree"
        /\ UNCHANGED << input_dir, done_dir, ocr_output, api_key,
                        pandoc_available, pdf_files, idx, log, run, faults,
                        locals >>
     \/ /\ Fault
        /\ Except("OSError", pdf_base)
        /\ UNCHANGED disk

\* lines 162-165, outside the try of line 183: the images are copied only
\* when latex_output/<base>/images does not exist; copytree creates the
\* directory before it copies the files, so an error leaves what it made
CopyImages ==
  /\ pc = "copytree"
  /\ \/ /\ latex_output_path.has_images
        /\ pc' = "pandoc"
        /\ UNCHANGED << disk, api_key, pandoc_available, pdf_files, idx, log,
                        run, faults, locals >>
     \/ /\ ~latex_output_path.has_images
        /\ latex_output' =
             [latex_output EXCEPT ![pdf_base].has_images = TRUE,
                                  ![pdf_base].images = output_dir.images]
        /\ pc' = "pandoc"
        /\ UNCHANGED << input_dir, done_dir, ocr_output, api_key,
                        pandoc_available, pdf_files, idx, log, run, faults,
                        locals >>
     \/ /\ ~latex_output_path.has_images
        /\ Fault
        /\ Except("shutil.Error", ImagesSlash)
        /\ \/ UNCHANGED latex_output
           \/ latex_output' =
                [latex_output EXCEPT ![pdf_base].has_images = TRUE,
                                     ![pdf_base].images = {}]
        /\ UNCHANGED << input_dir, done_dir, ocr_output >>

\* the persisted document pandoc reads
PersistedMarkdown == output_dir.md

\* lines 167-202 and 234-237: the converter runs; CalledProcessError and
\* FileNotFoundError are handled at lines 194-202, any other exception of
\* subprocess.run leaves convert_md_to_latex
RunPandoc ==
  /\ pc = "pandoc"
  /\ \/ /\ latex_output' =
             [latex_output EXCEPT ![pdf_base].tex = PersistedMarkdown]
        /\ log' = log \o << Event("latex_ok", pdf_file, "", <<>>),
                            Event("pipeline_ok", pdf_file, "", <<>>) >>
        /\ pc' = "move"
        /\ UNCHANGED << input_dir, done_dir, ocr_output, api_key,
                        pandoc_available, pdf_files, idx, run, faults,
                        locals >>
     \/ /\ Emit("pandoc_error")
        /\ pc' = "move"
        /\ UNCHANGED << disk, api_key, pandoc_available, pdf_files, idx, run,
                        faults, locals >>
     \/ /\ Fault
        /\ Except("OSError", <<"p", "a", "n", "d", "o", "c">>)
        /\ UNCHANGED disk

(* ----------------------------- main, end ------------------------------- *)
\* the input is moved as soon as process_pdf has returned
MovePdfEarly ==
  /\ pc = "persisted"
  /\ input_dir' = input_dir \ {pdf_file}
  /\ done_dir' = done_dir \cup {pdf_file}
  /\ Emit("moved")
  /\ pc' = "latex_mkdir"
  /\ UNCHANGED << ocr_output, latex_output, api_key, pandoc_available,
                  pdf_files, idx, run, faults, locals >>

\* lines 240-241: the input goes to pdfs-done, the loop takes the next file
MovePdf ==
  /\ pc = "move"
  /\ input_dir' = input_dir \ {pdf_file}
  /\ done_dir' = done_dir \cup {pdf_file}
  /\ Emit("moved")
  /\ idx' = idx + 1
  /\ pc' = "loop"
  /\ ResetLocals
  /\ UNCHANGED << ocr_output, latex_output, api_key, pandoc_available,
                  pdf_files, run, faults, extracted >>

\* the script is started again, in the same environment, on the disk the
\* last run left
Restart ==
  /\ pc \in {"done", "aborted"}
  /\ run < MaxRuns
  /\ run' = run + 1
  /\ api_key' = api_key
  /\ pandoc_available' = FALSE
  /\ pdf_files' = <<>>
  /\ idx' = 0
  /\ pc' = "boot"
  /\ log' = <<>>
  /\ extracted' = <<>>
  /\ UNCHANGED << disk, faults, ocr_response, pg, im, global_counter,
                  updated_markdown, updated_markdown_pages >>

Next ==
  \/ Boot
  \/ CheckPandoc
  \/ Glob
  \/ ForEnd
  \/ ForNext
  \/ MakeOutputDirs
  \/ Recognize
  \/ SaveSnapshot
  \/ PageStart
  \/ ExtractImage
  \/ PageEnd
  \/ WriteMarkdown
  \/ StartConvert
  \/ SkipConvert
  \/ MakeLatexDir
  \/ CopyImages
  \/ RunPandoc
  \/ MovePdf
  \/ Restart

Spec == Init /\ [][Next]_vars


(* --------------------- assembly of one document ------------------------ *)
\* The state process_pdf is in after line 110, for one input file and any
\* recognition result of AssemblyResponses, and the steps of lines 113-145
\* in an environment that raises no error.
InitAssembly ==
  /\ input_dir = {PdfName(1)}
  /\ done_dir = {}
  /\ \E r \in AssemblyResponses :
       /\ ocr_response = r
       /\ ocr_output =
            [b \in Bases |->
               IF b = Stem(PdfName(1))
               THEN [NoOutputDir EXCEPT !.exists = TRUE,
                                        !.json = <<Complete(r)>>]
               ELSE NoOutputDir]
  /\ latex_output = [b \in Bases |-> NoLatexDir]
  /\ api_key = TRUE
  /\ pandoc_available = FALSE
  /\ pdf_files = <<PdfName(1)>>
  /\ idx = 1
  /\ pc = "page"
  /\ log = << Event("processing", PdfName(1), "", <<>>),
              Event("ocr_saved", PdfName(1), "", <<>>) >>
  /\ run = 1
  /\ faults = MaxFaults
  /\ pg = 1
  /\ im = 0
  /\ global_counter = 1
  /\ updated_markdown = <<>>
  /\ updated_markdown_pages = <<>>
  /\ extracted = <<>>

NextAssembly ==
  \/ PageStart
  \/ ExtractImage
  \/ PageEnd
  \/ WriteMarkdown

SpecAssembly == InitAssembly /\ [][NextAssembly]_vars


(* --------------------------- observations ------------------------------ *)
\* what the process of this run has printed about a file
Printed(ev, f) == \E i \in DOMAIN log : log[i].ev = ev /\ log[i].doc = f
Attempted(f) == Printed("processing", f)
Persisted(f) == Printed("md_generated", f)
Converted(f) == Printed("latex_ok", f)
Archived(f) == Printed("moved", f)
Failed(f) == Printed("error", f)

\* the files of the batch the loop has left behind
Finished == {pdf_files[i] : i \in {j \in DOMAIN pdf_files : j < idx}}
Batch == {pdf_files[i] : i \in DOMAIN pdf_files}

\* the positions of process_pdf and of the conversion stage
InProcessPdf == pc \in {"mkdirs", "ocr", "save_json", "page", "image"}
InConvert == pc \in {"latex_mkdir", "copytree", "pandoc"}

(* -------------------------------- C1 ----------------------------------- *)
\* C1: the batch loop isolates failures.  Every file the loop has left
\* behind was attempted, and unless its own processing raised an error its
\* output.md is on disk and it is in the archive directory; the process
\* ends only when the loop has left every file of the batch behind.
C1_FailureIsolation ==
  /\ \A f \in Finished :
       /\ Attempted(f)
       /\ ~Failed(f) =>
            /\ Persisted(f)
            /\ ocr_output[Stem(f)].md # <<>>
            /\ ocr_output[Stem(f)].md[1].complete
            /\ Archived(f)
            /\ f \in done_dir
  /\ (pc = "done" /\ pdf_files # <<>>) => Finished = Batch

\* a failed file is followed by a file that was persisted and archived
C1_Witness ==
  /\ pc = "done"
  /\ \E i, j \in DOMAIN pdf_files :
       /\ i < j
       /\ Failed(pdf_files[i])
       /\ Persisted(pdf_files[j])
       /\ pdf_files[j] \in done_dir


(* -------------------------------- C2 ----------------------------------- *)
\* the number of embedded images of a recognition result
RECURSIVE NumImages(_)
NumImages(r) ==
  IF r = <<>> THEN 0 ELSE Len(Head(r).images) + NumImages(Tail(r))

\* everything process_pdf has to write for pdf_file is on disk, whole
AllWritten ==
  /\ output_dir.json = <<Complete(ocr_response)>>
  /\ Len(extracted) = NumImages(ocr_response)
  /\ \A i \in DOMAIN extracted :
       File(extracted[i].name, Complete(extracted[i].data)) \in output_dir.images
  /\ output_dir.md = <<Complete(Join(updated_markdown_pages))>>
  /\ Printed("ocr_saved", pdf_file)
  /\ Persisted(pdf_file)

\* the conversion stage was entered and has come back
ConvertReturned ==
  /\ Printed("converting", pdf_file)
  /\ Converted(pdf_file) \/ Printed("pandoc_error", pdf_file)

\* a step that moves a file to the archive moves pdf_file, after all its
\* artifacts were written and after the conversion stage, when enabled
MoveIsLast ==
  (done_dir' # done_dir \/ input_dir' # input_dir) =>
     /\ pc = "move"
     /\ done_dir' = done_dir \cup {pdf_file}
     /\ input_dir' = input_dir \ {pdf_file}
     /\ AllWritten
     /\ pandoc_available => ConvertReturned

\* a step that writes under the directories of a document finds the input
\* of that document in the input directory, and leaves it there
WritesBeforeMove ==
  \A b \in Bases :
    (ocr_output'[b] # ocr_output[b] \/ latex_output'[b] # latex_output[b]) =>
       \E f \in input_dir \cap input_dir' : Stem(f) = b /\ ~Archived(f)

\* a file of the batch that was not archived is in the input directory
UnarchivedStaysInput ==
  \A f \in Batch : ~Archived(f) => (f \in input_dir /\ f \notin done_dir)

\* C2: the move of the input to the archive directory is the last action of
\* the pipeline of a document: it follows the snapshot, every image,
\* output.md and the conversion stage, no file of the document is written
\* after it, and until it the input is in the input directory.
C2_ArchiveIsLast ==
  /\ []UnarchivedStaysInput
  /\ [][MoveIsLast /\ WritesBeforeMove]_vars

\* a document with images went through the conversion stage and was archived
C2_Witness ==
  \E f \in Finished :
    /\ Converted(f)
    /\ Archived(f)
    /\ f \in done_dir
    /\ ocr_output[Stem(f)].images # {}

(* -------------------------------- C3 ----------------------------------- *)
\* the step raises an error: the environment fails a call, or the payload
\* of the image at hand does not decode
Raises ==
  \/ faults' = faults + 1
  \/ /\ pc = "image"
     /\ im <= Len(page.images)
     /\ DecodeError(image_obj.image_base64) # "none"

\* an error inside process_pdf is reported with the name of the file, the
\* input stays where it is and the loop goes on
FatalIsReported ==
  (InProcessPdf /\ Raises) =>
     /\ Len(log') = Len(log) + 1
     /\ log'[Len(log')].ev = "error"
     /\ log'[Len(log')].doc = pdf_file
     /\ pdf_file \in input_dir'
     /\ UNCHANGED << input_dir, done_dir >>
     /\ pc' = "loop"
     /\ idx' = idx + 1

\* a failed file is out of the loop, in the input directory, not archived
FailedStaysInput ==
  \A f \in Batch :
    Failed(f) =>
      /\ f \in Finished
      /\ f \in input_dir
      /\ f \notin done_dir
      /\ ~Archived(f)

\* C3: a recognition failure, a payload that does not decode or a failed
\* write in process_pdf makes the document Failed: a diagnostic naming the
\* file is printed and the input is not moved to the archive directory.
C3_FatalToDocument ==
  /\ []FailedStaysInput
  /\ [][FatalIsReported]_vars

\* the batch has ended with a file that failed on a payload, still in input
C3_Witness ==
  /\ pc = "done"
  /\ \E i \in DOMAIN log :
       /\ log[i].ev = "error"
       /\ log[i].detail = "binascii.Error"
       /\ log[i].doc \in input_dir
       /\ log[i].doc \notin done_dir

(* -------------------------------- C4 ----------------------------------- *)
\* C4: every document that reaches Persisted is archived and is not Failed,
\* whatever happens in the conversion stage.
C4_ConversionNonFatal ==
  \A f \in Finished :
    Persisted(f) => (Archived(f) /\ ~Failed(f) /\ f \in done_dir)


(* -------------------------------- C5 ----------------------------------- *)
\* the number of images of the pages before page p of a recognition result
RECURSIVE ImagesBefore(_, _)
ImagesBefore(r, p) ==
  IF p <= 1 THEN 0 ELSE ImagesBefore(r, p - 1) + Len(r[p - 1].images)

\* process_pdf is between line 110 and line 240 for pdf_file
Assembling == pc \in {"page", "image"}
AfterProcessPdf == pc \in {"persisted", "latex_mkdir", "copytree", "pandoc", "move"}

\* C5: in every document of the batch the j-th extracted image, by page and
\* by position in the page, gets counter j and the name made of j: the
\* counter starts at 1 in each document, grows by one per image, and has no
\* gap or reset at a page boundary or at a page without images.
C5_CounterSequence ==
  /\ \A j \in DOMAIN extracted : extracted[j].counter = j
  /\ (Assembling \/ AfterProcessPdf) =>
       /\ global_counter = Len(extracted) + 1
       /\ \A j \in DOMAIN extracted :
            LET e == extracted[j]
            IN /\ j = ImagesBefore(ocr_response, e.page) + e.pos
               /\ e.id = ocr_response[e.page].images[e.pos].id
               /\ e.name = pdf_base \o ImgInfix \o Str(j) \o Ext(e.id)
  /\ AfterProcessPdf => Len(extracted) = NumImages(ocr_response)

\* the second document of a batch, after a first one that wrote images, has
\* its two images on pages 1 and 3 around an empty page
C5_Witness ==
  /\ pc = "persisted"
  /\ idx = 2
  /\ ocr_output[Stem(pdf_files[1])].images # {}
  /\ Len(extracted) = 2
  /\ extracted[1].page = 1
  /\ extracted[2].page = 3
  /\ extracted[2].counter = 2

(* -------------------------------- C6 ----------------------------------- *)
\* C6: a successfully processed document has as many image files as its
\* pages have embedded images, under pairwise distinct names, also when ids
\* repeat across pages or have different or no extensions.
C6_DistinctNames ==
  /\ pc = "persisted" =>
       /\ Len(extracted) = NumImages(ocr_response)
       /\ Cardinality(output_dir.images) = NumImages(ocr_response)
       /\ Cardinality(Names(output_dir.images)) = NumImages(ocr_response)
  /\ Assembling => Cardinality(Names(output_dir.images)) = Len(extracted)
  /\ (Assembling \/ pc = "persisted") =>
       \A i, j \in DOMAIN extracted :
         i # j => extracted[i].name # extracted[j].name

\* three pages, an id on two of them, an id with and one without extension
C6_Witness ==
  /\ pc = "persisted"
  /\ Len(ocr_response) = 3
  /\ Cardinality(output_dir.images) >= 4
  /\ \E i, j \in DOMAIN extracted :
       /\ extracted[i].page # extracted[j].page
       /\ extracted[i].id = extracted[j].id
  /\ \E i, j \in DOMAIN extracted :
       /\ Suffix(extracted[i].id) = <<>>
       /\ Suffix(extracted[j].id) # <<>>

(* -------------------------------- C7 ----------------------------------- *)
\* the files process_pdf has written for pdf_file
ExtractedFiles ==
  {File(extracted[i].name, Complete(extracted[i].data)) : i \in DOMAIN extracted}

\* C7: after a document is successfully processed its images directory
\* holds exactly one file per embedded image of the recognition result of
\* this run and nothing else, also when the document is processed again.
C7_ImagesDirExact ==
  AfterProcessPdf => output_dir.images = ExtractedFiles


(* -------------------------------- C8 ----------------------------------- *)
\* the name process_pdf gave to the image at position k of page p
NameOf(p, k) ==
  LET i == CHOOSE j \in DOMAIN extracted :
             extracted[j].page = p /\ extracted[j].pos = k
  IN extracted[i].name

\* the images of page p whose self-referential reference starts text s
RefsAt(s, p) ==
  {k \in DOMAIN ocr_response[p].images :
     LET x == ocr_response[p].images[k].id
     IN Len(s) >= Len(Ref(x, x)) /\ SubSeq(s, 1, Len(Ref(x, x))) = Ref(x, x)}

\* text s of page p read once from left to right: a reference ![x](x) to an
\* image x of the page becomes ![x](images/n), n the name of that image;
\* every other character is copied
RECURSIVE Relinked(_, _)
Relinked(s, p) ==
  IF s = <<>> THEN <<>>
  ELSE IF RefsAt(s, p) # {}
       THEN LET k == CHOOSE k \in RefsAt(s, p) : TRUE
                x == ocr_response[p].images[k].id
            IN Ref(x, ImagesSlash \o NameOf(p, k))
                 \o Relinked(SubSeq(s, Len(Ref(x, x)) + 1, Len(s)), p)
       ELSE <<Head(s)>> \o Relinked(Tail(s), p)

\* C8: in the markup of a page every reference ![x](x) to an image x of the
\* page is replaced by ![x](images/n), n the name given to that image, with
\* the alt text kept; every other part of the markup is unchanged, also an
\* x outside that pattern and a reference whose alt text is not its target.
C8_RewriteExact ==
  pc \in {"page", "persisted"} =>
     \A p \in DOMAIN updated_markdown_pages :
       /\ updated_markdown_pages[p] = Relinked(ocr_response[p].markdown, p)
       /\ \A k \in DOMAIN ocr_response[p].images :
            Len(Replace(updated_markdown_pages[p],
                        Ref(ocr_response[p].images[k].id,
                            ocr_response[p].images[k].id), <<>>))
              = Len(updated_markdown_pages[p])

\* a page with ![x](x) next to ![x](y), both x and y images of the page: the
\* first was rewritten, the second was not
C8_Witness ==
  /\ pc = "persisted"
  /\ \E p \in DOMAIN ocr_response : \E k, l \in DOMAIN ocr_response[p].images :
       LET x == ocr_response[p].images[k].id
           y == ocr_response[p].images[l].id
       IN /\ x # y
          /\ ocr_response[p].markdown = Ref(x, x) \o Ref(x, y)
          /\ updated_markdown_pages[p] =
               Ref(x, ImagesSlash \o NameOf(p, k)) \o Ref(x, y)

(* -------------------------------- C9 ----------------------------------- *)
\* where the segment of page p starts in the joined text, counted from 0
RECURSIVE Offset(_, _)
Offset(parts, p) ==
  IF p <= 1 THEN 0 ELSE Offset(parts, p - 1) + Len(parts[p - 1]) + 2

\* C9: output.md is the rewritten markup of pages 1..N in recognition
\* order with exactly two newlines between consecutive pages: no page is
\* dropped, reordered or deduplicated, and an empty page keeps its segment,
\* so that N pages give N-1 separators.
C9_JoinInOrder ==
  pc = "persisted" =>
     LET N == Len(ocr_response)
         parts == updated_markdown_pages
         text == output_dir.md[1].value
     IN /\ output_dir.md[1].complete
        /\ Len(parts) = N
        /\ \A p \in 1..N : parts[p] = Relinked(ocr_response[p].markdown, p)
        /\ Len(text) = Offset(parts, N) + Len(parts[N])
        /\ \A p \in 1..N :
             SubSeq(text, Offset(parts, p) + 1, Offset(parts, p) + Len(parts[p]))
               = parts[p]
        /\ \A p \in 1..(N - 1) :
             /\ text[Offset(parts, p) + Len(parts[p]) + 1] = "\n"
             /\ text[Offset(parts, p) + Len(parts[p]) + 2] = "\n"

\* three pages, the second empty and without images, the first and the
\* third with the same markup
C9_Witness ==
  /\ pc = "persisted"
  /\ Len(ocr_response) = 3
  /\ ocr_response[2] = Page(<<>>, <<>>)
  /\ ocr_response[1].markdown # <<>>
  /\ ocr_response[1].markdown = ocr_response[3].markdown
  /\ output_dir.md # <<>>

(* -------------------------------- C10 ---------------------------------- *)
\* the flag is set by the check of lines 210-218 and by nothing after it
ResolvedOnce == pandoc_available' # pandoc_available => (pc = "probe" \/ pc' = "boot")

\* without the converter no step enters the conversion stage or touches
\* latex_output
NoConvertStep ==
  (~pandoc_available /\ pc' # "boot") =>
     /\ latex_output' = latex_output
     /\ ~(InConvert')

\* without the converter nothing of the conversion stage was printed, and
\* every file whose Markdown was persisted is archived
SkippedNotFatal ==
  (~pandoc_available /\ pc \notin {"boot", "probe"}) =>
     /\ \A i \in DOMAIN log :
          log[i].ev \notin {"converting", "latex_ok", "pipeline_ok", "pandoc_error"}
     /\ \A f \in Finished :
          Persisted(f) =>
            /\ Archived(f)
            /\ ~Failed(f)
            /\ f \in done_dir
            /\ ocr_output[Stem(f)].md # <<>>
     /\ \A f \in Batch : ~Converted(f)

Step ==
  \/ Boot
  \/ CheckPandoc
  \/ Glob
  \/ ForEnd
  \/ ForNext
  \/ MakeOutputDirs
  \/ Recognize
  \/ SaveSnapshot
  \/ PageStart
  \/ ExtractImage
  \/ PageEnd
  \/ WriteMarkdown
  \/ StartConvert
  \/ SkipConvert
  \/ MakeLatexDir
  \/ CopyImages
  \/ RunPandoc
  \/ MovePdf

SpecOneRun == Init /\ [][Step]_vars /\ WF_vars(Step)

\* how many times the loop has entered process_pdf for a file
Attempts(f) ==
  Cardinality({i \in DOMAIN log : log[i].ev = "processing" /\ log[i].doc = f})

\* no file is attempted twice; when main has returned every listed file was
\* attempted once and is either archived or failed and still in the input
\* directory
ExactlyOneOutcome ==
  /\ \A f \in Batch : Attempts(f) <= 1
  /\ pc = "done" =>
       \A f \in Batch :
         /\ Attempts(f) = 1
         /\ \/ /\ Archived(f) /\ ~Failed(f)
               /\ f \in done_dir /\ f \notin input_dir
            \/ /\ Failed(f) /\ ~Archived(f)
               /\ f \in input_dir /\ f \notin done_dir

\* C11: when every external call returns, main returns after it has
\* attempted every listed file exactly once, and then every listed file is
\* either archived or failed and in the input directory, never both and
\* never neither.
C11_Terminates ==
  /\ []ExactlyOneOutcome
  /\ (pc = "probe") ~> (pc = "done")

\* main has returned from a batch with an archived file and a failed one
C11_Witness ==
  /\ pc = "done"
  /\ \E f, g \in Batch :
       /\ Archived(f) /\ f \in done_dir
       /\ Failed(g) /\ g \in input_dir

(* -------------------------------- C12 ---------------------------------- *)
\* lines 110-141 as functions of the recognition result r and the base name
\* alone: the name of the image at position k of page p, the names in the
\* order they are assigned, the markup of page p after its first k images,
\* and the joined text
AssignedName(r, base, p, k) ==
  base \o ImgInfix \o Str(ImagesBefore(r, p) + k) \o Ext(r[p].images[k].id)

AssignedNames(r, base) ==
  Concat([p \in DOMAIN r |->
            [k \in DOMAIN r[p].images |-> AssignedName(r, base, p, k)]])

RECURSIVE PageText(_, _, _, _)
PageText(r, base, p, k) ==
  IF k = 0 THEN r[p].markdown
  ELSE Rewrite(PageText(r, base, p, k - 1), r[p].images[k].id,
               AssignedName(r, base, p, k))

DocumentText(r, base) ==
  Join([p \in DOMAIN r |-> PageText(r, base, p, Len(r[p].images))])

\* C12: the assembly is deterministic: the document text and the assigned
\* image names are determined by the recognition result and the base name,
\* whatever the run, the files already on disk and the documents processed
\* before, so that two runs on the same result and base name give the same
\* text and the same names.
C12_Deterministic ==
  AfterProcessPdf =>
    /\ output_dir.md = <<Complete(DocumentText(ocr_response, pdf_base))>>
    /\ [j \in DOMAIN extracted |-> extracted[j].name]
         = AssignedNames(ocr_response, pdf_base)

\* a second run on a document whose first run wrote images and reached the
\* conversion stage before it failed
C12_Witness ==
  /\ run = 2
  /\ pc = "persisted"
  /\ latex_output_path.exists
  /\ Len(extracted) = 2
  /\ AssignedNames(ocr_response, pdf_base)
       = <<NewImageName(pdf_base, 1, IdB), NewImageName(pdf_base, 2, IdA)>>

(* -------------------------------- C13 ---------------------------------- *)
\* the inner loop is at an image whose payload lines 118-121 cannot decode
DecodeFails ==
  /\ pc = "image"
  /\ im <= Len(page.images)
  /\ DecodeError(image_obj.image_base64) # "none"

\* C13: when the payload of an embedded image cannot be decoded, process_pdf
\* raises, the file is reported as failed, and the message printed for the
\* file identifies the id of the image.
C13_DecodeErrorNamesImage ==
  [][DecodeFails =>
       /\ pc' = "loop"
       /\ log'[Len(log')].ev = "error"
       /\ log'[Len(log')].doc = pdf_file
       /\ log'[Len(log')].about = image_obj.id]_vars

(* -------------------------------- C14 ---------------------------------- *)
\* C14: without the credential the program stops at startup: no file is
\* listed, entered or sent to the recognition service, and no step changes
\* a file or its place on disk.
C14_NoKeyAborts ==
  /\ [](~api_key =>
          /\ pc \in {"boot", "aborted"}
          /\ pdf_files = <<>>
          /\ ocr_response = <<>>
          /\ \A f \in PdfNames : ~Attempted(f))
  /\ [][~api_key => UNCHANGED disk]_vars

\* the program has stopped without the credential, a file waits in the
\* input directory
C14_Witness ==
  /\ ~api_key
  /\ pc = "aborted"
  /\ input_dir # {}
  /\ done_dir = {}

(* -------------------------------- C15 ---------------------------------- *)
\* text sub stands somewhere in text s
Contains(s, sub) ==
  \E i \in 0..(Len(s) - Len(sub)) : SubSeq(s, i + 1, i + Len(sub)) = sub

\* pages p and q, already assembled, carry the same image id at positions k
\* and l, and the markup of p refers to it
SameIdOnTwoPages(p, k, q, l) ==
  /\ p # q
  /\ ocr_response[p].images[k].id = ocr_response[q].images[l].id
  /\ Contains(ocr_response[p].markdown,
              Ref(ocr_response[p].images[k].id, ocr_response[p].images[k].id))

\* C15: when two pages carry an image with the same id x, the two images
\* get different names, and the reference ![x](x) of each page is rewritten
\* to the file extracted from the image of that page, never to the file of
\* the other page.
C15_OwnPageImage ==
  pc \in {"page", "persisted"} =>
    \A p, q \in DOMAIN updated_markdown_pages :
      \A k \in DOMAIN ocr_response[p].images :
        \A l \in DOMAIN ocr_response[q].images :
          SameIdOnTwoPages(p, k, q, l) =>
            LET x == ocr_response[p].images[k].id
            IN /\ NameOf(p, k) # NameOf(q, l)
               /\ Contains(updated_markdown_pages[p],
                           Ref(x, ImagesSlash \o NameOf(p, k)))
               /\ ~Contains(updated_markdown_pages[p],
                            Ref(x, ImagesSlash \o NameOf(q, l)))
               /\ ~Contains(updated_markdown_pages[p], Ref(x, x))
               /\ File(NameOf(p, k),
                       Complete(B64Decode(ocr_response[p].images[k].image_base64)))
                    \in output_dir.images

\* a document is written whose first and last page both refer to an image
\* with the same id, between them a page that does not have it
C15_Witness ==
  /\ pc = "persisted"
  /\ Len(ocr_response) = 3
  /\ \E k \in DOMAIN ocr_response[1].images :
       \E l \in DOMAIN ocr_response[3].images :
         /\ SameIdOnTwoPages(1, k, 3, l)
         /\ SameIdOnTwoPages(3, l, 1, k)
         /\ \A m \in DOMAIN ocr_response[2].images :
              ocr_response[2].images[m].id # ocr_response[1].images[k].id
         /\ NameOf(1, k) # NameOf(3, l)

(* -------------------------------- C16 ---------------------------------- *)
\* convert_md_to_latex is past lines 162-165 for pdf_file
PastCopy ==
  \/ pc = "pandoc"
  \/ pc = "move" /\ Printed("converting", pdf_file)

\* C16: whenever the conversion stage has run for a document, the images
\* directory in latex_output/<base> is a copy of output/<base>/images, same
\* names and contents, also when latex_output/<base> already exists from an
\* earlier attempt.
C16_LatexImagesAreCopy ==
  PastCopy =>
    /\ latex_output_path.has_images
    /\ latex_output_path.images = output_dir.images

(* -------------------------------- C17 ---------------------------------- *)
\* the snapshot of the result of this run is on disk for pdf_file
SnapshotOnDisk == output_dir.json = <<Complete(ocr_response)>>

\* the step leaves process_pdf through the handler of line 242
LeavesByError == pc' = "loop" /\ Len(log') = Len(log) + 1

\* C17: ocr_response.json is written after the recognition call has
\* returned and before the first image is extracted or markup rewritten:
\* only the step of lines 101-104 changes a snapshot, and it has a result;
\* the loops of lines 113-139 and everything after run with the snapshot on
\* disk; a file that fails in extraction or in writing its images or text
\* keeps the snapshot; a file whose recognition call fails gets no
\* snapshot in that run.
C17_SnapshotOrder ==
  /\ []((Assembling \/ AfterProcessPdf) =>
          SnapshotOnDisk /\ Printed("ocr_saved", pdf_file))
  /\ [](\A i \in DOMAIN log :
          log[i].ev = "error" /\ log[i].detail = "SDKError"
            => ~Printed("ocr_saved", log[i].doc))
  /\ [][\A b \in Bases :
          ocr_output'[b].json # ocr_output[b].json =>
            /\ pc = "save_json"
            /\ b = pdf_base
            /\ ocr_response \in SampleResponses]_vars
  /\ [][Assembling /\ LeavesByError =>
          ocr_output'[pdf_base].json = <<Complete(ocr_response)>>]_vars
  /\ [][pc = "ocr" /\ LeavesByError =>
          ocr_output'[pdf_base].json = ocr_output[pdf_base].json]_vars

\* main has returned: one file failed at an image and has its snapshot, the
\* other failed in the recognition call and has none
C17_Witness ==
  /\ pc = "done"
  /\ \E i, j \in DOMAIN log :
       /\ log[i].ev = "error" /\ log[i].detail = "binascii.Error"
       /\ ocr_output[Stem(log[i].doc)].json = <<Complete(RespBad)>>
       /\ ocr_output[Stem(log[i].doc)].images # {}
       /\ log[j].ev = "error" /\ log[j].detail = "SDKError"
       /\ ocr_output[Stem(log[j].doc)].json = <<>>

(* -------------------------------- C18 ---------------------------------- *)
\* the loop body of lines 227-243 is at work on pdf_file
InLoopBody == InProcessPdf \/ InConvert \/ pc \in {"persisted", "move"}

\* C18: while one file is processed only output/<base> and
\* latex_output/<base> of that file change and only that file moves from
\* the input directory to the archive; the inputs, archived files and
\* output directories of the other files are unchanged, whether the file
\* succeeds or fails; outside the loop body nothing on disk changes.
C18_Frame ==
  [][IF InLoopBody
     THEN /\ \A b \in Bases \ {Stem(pdf_files[idx])} :
               /\ ocr_output'[b] = ocr_output[b]
               /\ latex_output'[b] = latex_output[b]
          /\ input_dir' \subseteq input_dir
          /\ input_dir \ input_dir' \subseteq {pdf_files[idx]}
          /\ done_dir \subseteq done_dir'
          /\ done_dir' \ done_dir \subseteq {pdf_files[idx]}
     ELSE UNCHANGED disk]_vars

\* the second file of the batch is about to be moved; the first is in the
\* archive with its output directories written
C18_Witness ==
  /\ pc = "move"
  /\ idx = 2
  /\ pdf_files[1] \in done_dir
  /\ pdf_files[2] \in input_dir
  /\ ocr_output[Stem(pdf_files[1])].md # <<>>
  /\ latex_output[Stem(pdf_files[1])].tex # <<>>
  /\ ocr_output[Stem(pdf_files[2])].md # <<>>

(* -------------------------------- C19 ---------------------------------- *)
\* the number of images of each page of the recognition result
ImageCounts == [p \in DOMAIN ocr_response |-> Len(ocr_response[p].images)]

\* all images of a document with image counts 2, 0, 3 have been extracted
Counts203 == ImageCounts = <<2, 0, 3>> /\ (pc = "persisted" \/ pg > 3)

\* C19 as stated: with image counts 2, 0, 3 six images are extracted and
\* they get the counters 1 to 6 in page order.
C19_SixImages ==
  Counts203 =>
    /\ Len(extracted) = 6
    /\ \A j \in 1..6 : extracted[j].counter = j

\* C19: with image counts 2, 0, 3 five images are extracted; they get the
\* counters 1 to 5 in page order, two on page 1 and three on page 3, without
\* a gap or a reset at the page without images; 6 is the value the counter
\* is left with.
C19_FiveImages ==
  Counts203 =>
    /\ Len(extracted) = 5
    /\ Cardinality(output_dir.images) = 5
    /\ \A j \in 1..5 :
         /\ extracted[j].counter = j
         /\ extracted[j].page = <<1, 1, 3, 3, 3>>[j]
         /\ extracted[j].pos = <<1, 2, 1, 2, 3>>[j]
         /\ extracted[j].name =
              pdf_base \o ImgInfix \o <<DigitChars[j + 1]>> \o Ext(extracted[j].id)
    /\ global_counter = 6

\* the text of a document with image counts 2, 0, 3 has been written
C19_Witness ==
  /\ pc = "persisted"
  /\ ImageCounts = <<2, 0, 3>>
  /\ Len(extracted) = 5
  /\ extracted[5].page = 3

(* -------------------------------- C20 ---------------------------------- *)
\* the targets of the form images/<name> that stand in text: what is between
\* "](images/" and the next ")"
TargetOpen == <<"]", "(">> \o ImagesSlash

RECURSIVE CloseAt(_, _)
CloseAt(text, j) ==
  IF j > Len(text) \/ text[j] = ")" THEN j ELSE CloseAt(text, j + 1)

TargetsIn(text) ==
  {SubSeq(text, i + Len(TargetOpen), CloseAt(text, i + Len(TargetOpen)) - 1) :
     i \in {k \in 1..(Len(text) - Len(TargetOpen)) :
              /\ SubSeq(text, k, k + Len(TargetOpen) - 1) = TargetOpen
              /\ CloseAt(text, k + Len(TargetOpen)) <= Len(text)}}

\* the images of the recognition result whose file, with the decoded bytes,
\* is in the images directory under name n
ImagesNamed(n) ==
  {j \in DOMAIN extracted :
     /\ extracted[j].name = n
     /\ File(n, Complete(B64Decode(
               ocr_response[extracted[j].page].images[extracted[j].pos].image_base64)))
          \in output_dir.images}

\* C20: once process_pdf has written output.md in this run, every target
\* images/<name> in that text names a file of the images directory that
\* holds the decoded bytes of the image the name was given to, and every
\* image the markup of its page refers to has such a target; output.md is
\* written only when all images of the document have been written, and the
\* images directory does not change afterwards.
C20_ReferentialIntegrity ==
  /\ [](AfterProcessPdf =>
          /\ output_dir.md # <<>> /\ output_dir.md[1].complete
          /\ LET targets == TargetsIn(output_dir.md[1].value)
             IN /\ \A n \in targets : ImagesNamed(n) # {}
                /\ \A j \in DOMAIN extracted :
                     LET x == extracted[j].id
                     IN Contains(ocr_response[extracted[j].page].markdown,
                                 Ref(x, x))
                          => extracted[j].name \in targets)
  /\ [][InLoopBody /\ ocr_output'[pdf_base].md # ocr_output[pdf_base].md =>
          /\ pc = "page" /\ pg > Len(pages)
          /\ Len(extracted) = NumImages(ocr_response)
          /\ \A j \in DOMAIN extracted : ImagesNamed(extracted[j].name) # {}]_vars
  /\ [][AfterProcessPdf =>
          ocr_output'[pdf_base].images = ocr_output[pdf_base].images]_vars

\* the second run of a document has written its text with a reference to an
\* image; the images directory held files of the first run
C20_Witness ==
  /\ pc = "persisted"
  /\ run = 2
  /\ latex_output_path.exists
  /\ TargetsIn(output_dir.md[1].value) # {}
  /\ \A n \in TargetsIn(output_dir.md[1].value) : ImagesNamed(n) # {}

====
